---------------------------- MODULE Spec2Model ----------------------------
(***************************************************************************)
(* UTC <-> TAI conversion of the tai_stuff crate (src/src/lib.rs): the     *)
(* compiled-in LEAP_SECONDS table, the lazily initialised                  *)
(* ADDITIONAL_LEAP_SECONDS cell fed by read_additional_leap_seconds (unix  *)
(* variant), and the two From conversions.                                 *)
(*                                                                         *)
(* TLC's integers are 32 bits wide.  Every Unix time stamp the model uses  *)
(* lies below 2^31; the NTP-era literals of lib.rs (seconds since 1900) do *)
(* not, so they are written in units of 100 s (all of them are multiples   *)
(* of 100) and LEAP_BASE_OFFSET is subtracted before scaling back.         *)
(***************************************************************************)
EXTENDS Integers, Sequences, FiniteSets

(***************************************************************************)
(* Constants of lib.rs                                                     *)
(***************************************************************************)

\* lib.rs:9, in units of 100 s: 25567 * 24 * 60 * 60 = 2208988800.
LEAP_BASE_OFFSET == 25567 * 24 * 36

\* An NTP-era literal of lib.rs, given in units of 100 s, minus LEAP_BASE_OFFSET.
FromNtp(h) == (h - LEAP_BASE_OFFSET) * 100

FIRST_LEAP_SECONDS_DIFF == 10

LEAP_SECONDS ==
    << <<FromNtp(22877856), 11>>,  \* 1 Jul 1972
       <<FromNtp(23036832), 12>>,  \* 1 Jan 1973
       <<FromNtp(23352192), 13>>,  \* 1 Jan 1974
       <<FromNtp(23667552), 14>>,  \* 1 Jan 1975
       <<FromNtp(23982912), 15>>,  \* 1 Jan 1976
       <<FromNtp(24299136), 16>>,  \* 1 Jan 1977
       <<FromNtp(24614496), 17>>,  \* 1 Jan 1978
       <<FromNtp(24929856), 18>>,  \* 1 Jan 1979
       <<FromNtp(25245216), 19>>,  \* 1 Jan 1980
       <<FromNtp(25717824), 20>>,  \* 1 Jul 1981
       <<FromNtp(26033184), 21>>,  \* 1 Jul 1982
       <<FromNtp(26348544), 22>>,  \* 1 Jul 1983
       <<FromNtp(26980128), 23>>,  \* 1 Jul 1985
       <<FromNtp(27769824), 24>>,  \* 1 Jan 1988
       <<FromNtp(28401408), 25>>,  \* 1 Jan 1990
       <<FromNtp(28716768), 26>>,  \* 1 Jan 1991
       <<FromNtp(29189376), 27>>,  \* 1 Jul 1992
       <<FromNtp(29504736), 28>>,  \* 1 Jul 1993
       <<FromNtp(29820096), 29>>,  \* 1 Jul 1994
       <<FromNtp(30294432), 30>>,  \* 1 Jan 1996
       <<FromNtp(30767040), 31>>,  \* 1 Jul 1997
       <<FromNtp(31241376), 32>>,  \* 1 Jan 1999
       <<FromNtp(33450624), 33>>,  \* 1 Jan 2006
       <<FromNtp(34397568), 34>>,  \* 1 Jan 2009
       <<FromNtp(35500896), 35>>,  \* 1 Jul 2012
       <<FromNtp(36446976), 36>>,  \* 1 Jul 2015
       <<FromNtp(36922176), 37>> >> \* 1 Jan 2017

EXPIRES_AT_UTC == FromNtp(38968992)

EXPIRES_AT_TAI == EXPIRES_AT_UTC + LEAP_SECONDS[Len(LEAP_SECONDS)][2]

(***************************************************************************)
(* time::Duration: whole seconds and nanoseconds of the same sign.  An     *)
(* OffsetDateTime is modelled by its Duration since UNIX_EPOCH, which is   *)
(* what lib.rs:289 takes and lib.rs:330/341 rebuild.                       *)
(***************************************************************************)

Nanosecond == 1000 * 1000 * 1000

\* Duration::new(seconds, nanoseconds) for |nanoseconds| < 10^9.
DurationNew(s, n) ==
    IF s < 0 /\ n > 0 THEN [seconds |-> s + 1, nanoseconds |-> n - Nanosecond]
    ELSE IF s > 0 /\ n < 0 THEN [seconds |-> s - 1, nanoseconds |-> n + Nanosecond]
    ELSE [seconds |-> s, nanoseconds |-> n]

\* Duration + Duration.
DurAdd(a, b) ==
    LET s == a.seconds + b.seconds
        n == a.nanoseconds + b.nanoseconds
    IN  IF n >= Nanosecond \/ (s < 0 /\ n > 0)
          THEN [seconds |-> s + 1, nanoseconds |-> n - Nanosecond]
        ELSE IF n <= -Nanosecond \/ (s > 0 /\ n < 0)
          THEN [seconds |-> s - 1, nanoseconds |-> n + Nanosecond]
        ELSE [seconds |-> s, nanoseconds |-> n]

\* Duration - Duration.
DurSub(a, b) ==
    DurAdd(a, [seconds |-> -b.seconds, nanoseconds |-> -b.nanoseconds])

\* Duration::whole_seconds.
WholeSeconds(d) == d.seconds

\* impl Sub for TaiDateTime (a TaiDateTime is its inner Duration).
Sub(self, rhs) == DurSub(self, rhs)

(***************************************************************************)
(* The table scans of the two conversions                                  *)
(***************************************************************************)

Last(S) == CHOOSE i \in S : \A j \in S : j <= i

First(S) == CHOOSE i \in S : \A j \in S : i <= j

\* RevFindUtc with the boundary exclusive: t < whole_seconds.
RevFindUtcExclusive(table, ws) ==
    LET S == {i \in 1..Len(table) : table[i][1] < ws}
    IN  IF S = {} THEN 0 ELSE Last(S)

\* .iter().cloned().rev().find(|&(t, _)| t <= whole_seconds): the index of the
\* entry found, 0 for None.
RevFindUtc(table, ws) ==
    LET S == {i \in 1..Len(table) : table[i][1] <= ws}
    IN  IF S = {} THEN 0 ELSE Last(S)

\* RevFindTai keyed on the UTC instant: t <= whole_seconds.
RevFindTaiUnshifted(table, ws) ==
    LET S == {i \in 1..Len(table) : table[i][1] <= ws}
    IN  IF S = {} THEN 0 ELSE Last(S)

\* .iter().cloned().rev().find(|&(t, diff)| t + diff <= whole_seconds).
RevFindTai(table, ws) ==
    LET S == {i \in 1..Len(table) : table[i][1] + table[i][2] <= ws}
    IN  IF S = {} THEN 0 ELSE Last(S)

\* StaticDiffUtc with .unwrap_or_default(): no offset before the first event.
StaticDiffUtcNoFallback(ws) ==
    LET i == RevFindUtc(LEAP_SECONDS, ws)
    IN  IF i = 0 THEN 0 ELSE LEAP_SECONDS[i][2]

\* lib.rs:306-311: the static scan with .unwrap_or((0, FIRST_LEAP_SECONDS_DIFF)).
StaticDiffUtc(ws) ==
    LET i == RevFindUtc(LEAP_SECONDS, ws)
    IN  IF i = 0 THEN FIRST_LEAP_SECONDS_DIFF ELSE LEAP_SECONDS[i][2]

\* lib.rs:334-339.
StaticDiffTai(ws) ==
    LET i == RevFindTai(LEAP_SECONDS, ws)
    IN  IF i = 0 THEN FIRST_LEAP_SECONDS_DIFF ELSE LEAP_SECONDS[i][2]

\* lib.rs:292: the supplementary table is consulted from here on.
PastExpiryUtc(unix_time_stamp) == WholeSeconds(unix_time_stamp) >= EXPIRES_AT_UTC

\* PastExpiryTai comparing with the UTC-side constant.
PastExpiryTaiUtcSide(time) == WholeSeconds(time) >= EXPIRES_AT_UTC

\* lib.rs:320.
PastExpiryTai(time) == WholeSeconds(time) >= EXPIRES_AT_TAI

\* FromUtcStatic with the static scan running forwards: the first entry found.
FromUtcStaticForward(unix_time_stamp) ==
    LET S == {i \in 1..Len(LEAP_SECONDS) :
                LEAP_SECONDS[i][1] <= WholeSeconds(unix_time_stamp)}
    IN  DurAdd(unix_time_stamp,
               DurationNew(IF S = {} THEN FIRST_LEAP_SECONDS_DIFF
                           ELSE LEAP_SECONDS[First(S)][2], 0))

\* lib.rs:306-313: the tail of From<OffsetDateTime> for TaiDateTime.
FromUtcStatic(unix_time_stamp) ==
    DurAdd(unix_time_stamp,
           DurationNew(StaticDiffUtc(WholeSeconds(unix_time_stamp)), 0))

\* FromUtcWith without the static scan after a miss.
FromUtcWithNoStatic(unix_time_stamp, leap_seconds) ==
    LET i == RevFindUtc(leap_seconds, WholeSeconds(unix_time_stamp))
    IN  DurAdd(unix_time_stamp,
               DurationNew(IF i # 0 THEN leap_seconds[i][2]
                           ELSE FIRST_LEAP_SECONDS_DIFF, 0))

\* lib.rs:296-313: the conversion once get_or_init has returned leap_seconds.
FromUtcWith(unix_time_stamp, leap_seconds) ==
    LET i == RevFindUtc(leap_seconds, WholeSeconds(unix_time_stamp))
    IN  IF i # 0
          THEN DurAdd(unix_time_stamp, DurationNew(leap_seconds[i][2], 0))
          ELSE FromUtcStatic(unix_time_stamp)

\* lib.rs:334-341: the tail of From<TaiDateTime> for OffsetDateTime.
FromTaiStatic(time) ==
    DurSub(time, DurationNew(StaticDiffTai(WholeSeconds(time)), 0))

\* lib.rs:324-341.
FromTaiWith(time, leap_seconds) ==
    LET i == RevFindTai(leap_seconds, WholeSeconds(time))
    IN  IF i # 0
          THEN DurSub(time, DurationNew(leap_seconds[i][2], 0))
          ELSE FromTaiStatic(time)

(***************************************************************************)
(* read_additional_leap_seconds, unix variant (lib.rs:225-281).  A string  *)
(* is the sequence of its characters; the file is the sequence of pieces   *)
(* file.split('\n') yields.                                                *)
(***************************************************************************)

TAB == "\t"

Digits == <<"0", "1", "2", "3", "4", "5", "6", "7", "8", "9">>

IsDigit(c) == \E i \in 1..10 : Digits[i] = c

DigitVal(c) == (CHOOSE i \in 1..10 : Digits[i] = c) - 1

None == [ok |-> FALSE, val |-> 0]

Some(v) == [ok |-> TRUE, val |-> v]

\* str::strip_prefix.
StripPrefix(s, p) ==
    IF Len(s) >= Len(p) /\ SubSeq(s, 1, Len(p)) = p
      THEN [ok |-> TRUE, rem |-> SubSeq(s, Len(p) + 1, Len(s))]
      ELSE [ok |-> FALSE, rem |-> <<>>]

\* str::split_once on a character.
SplitOnce(s, c) ==
    LET S == {i \in 1..Len(s) : s[i] = c}
    IN  IF S = {}
          THEN [ok |-> FALSE, head |-> <<>>, rem |-> <<>>]
          ELSE [ok |-> TRUE, head |-> SubSeq(s, 1, First(S) - 1),
                rem |-> SubSeq(s, First(S) + 1, Len(s))]

\* The value of a digit string, None when empty, when a character is no digit or
\* when the value exceeds max.
RECURSIVE DigitsValue(_, _, _)
DigitsValue(s, acc, max) ==
    IF s = <<>> THEN Some(acc)
    ELSE IF ~IsDigit(Head(s)) THEN None
    ELSE IF acc > (max - DigitVal(Head(s))) \div 10 THEN None
    ELSE DigitsValue(Tail(s), acc * 10 + DigitVal(Head(s)), max)

\* <u8 as FromStr>::from_str: an optional '+', then digits, at most 255.
ParseU8(s) ==
    LET body == IF s # <<>> /\ Head(s) = "+" THEN Tail(s) ELSE s
    IN  IF body = <<>> THEN None ELSE DigitsValue(body, 0, 255)

\* <i32 as FromStr>::from_str: an optional sign, then digits.
ParseI32(s) ==
    LET neg  == s # <<>> /\ Head(s) = "-"
        body == IF s # <<>> /\ Head(s) \in {"+", "-"} THEN Tail(s) ELSE s
        v    == DigitsValue(body, 0, 2147483647)
    IN  IF body = <<>> \/ ~v.ok THEN None
        ELSE Some(IF neg THEN -v.val ELSE v.val)

MonthNames ==
    << <<"J","a","n">>, <<"F","e","b">>, <<"M","a","r">>, <<"A","p","r">>,
       <<"M","a","y">>, <<"J","u","n">>, <<"J","u","l">>, <<"A","u","g">>,
       <<"S","e","p">>, <<"O","c","t">>, <<"N","o","v">>, <<"D","e","c">> >>

\* The match on the month abbreviation (lib.rs:238-252), the month's number.
MatchMonth(s) ==
    IF \E m \in 1..12 : MonthNames[m] = s
      THEN Some(CHOOSE m \in 1..12 : MonthNames[m] = s)
      ELSE None

IsLeapYear(y) == y % 4 = 0 /\ (y % 100 # 0 \/ y % 400 = 0)

DaysInMonth(y, m) ==
    IF m = 2 THEN (IF IsLeapYear(y) THEN 29 ELSE 28)
    ELSE IF m \in {4, 6, 9, 11} THEN 30 ELSE 31

\* time::Date::from_calendar_date: Ok for a day of the month of a year in
\* -9999..=9999.
FromCalendarDate(year, month, day) ==
    IF year >= -9999 /\ year <= 9999 /\ day >= 1 /\ day <= DaysInMonth(year, month)
      THEN Some([year |-> year, month |-> month, day |-> day])
      ELSE None

\* Days from 1970-01-01 to a day of the proleptic Gregorian calendar.
DaysFromCivil(y, m, d) ==
    LET yy  == IF m <= 2 THEN y - 1 ELSE y
        era == yy \div 400
        yoe == yy - era * 400
        mp  == (m + 9) % 12
        doy == (153 * mp + 2) \div 5 + d - 1
        doe == yoe * 365 + yoe \div 4 - yoe \div 100 + doy
    IN  era * 146097 + doe - 719468

\* Date::with_hms(..).assume_utc().unix_timestamp(): None for an hour, minute or
\* second out of range.
WithHmsUnixTimestamp(date, hour, minute, second) ==
    IF hour <= 23 /\ minute <= 59 /\ second <= 59
      THEN Some(DaysFromCivil(date.year, date.month, date.day) * 86400
                + hour * 3600 + minute * 60 + second)
      ELSE None

\* u8::min(second, 59) (lib.rs:263).
ClampSecond(second) == IF second < 59 THEN second ELSE 59

\* lib.rs:233-266: the fields of one line up to the sign; ok is FALSE where the
\* code continues with the next line.
ParseFields(line) ==
    LET p      == StripPrefix(line, <<"L", "e", "a", "p", TAB>>)
        f_year == SplitOnce(p.rem, TAB)
        year   == ParseI32(f_year.head)
        f_mon  == SplitOnce(f_year.rem, TAB)
        month  == MatchMonth(f_mon.head)
        f_day  == SplitOnce(f_mon.rem, TAB)
        day    == ParseU8(f_day.head)
        date   == FromCalendarDate(year.val, month.val, day.val)
        f_hour == SplitOnce(f_day.rem, ":")
        hour   == ParseU8(f_hour.head)
        f_min  == SplitOnce(f_hour.rem, ":")
        minute == ParseU8(f_min.head)
        f_sec  == SplitOnce(f_min.rem, TAB)
        second == ParseU8(f_sec.head)
        stamp  == WithHmsUnixTimestamp(date.val, hour.val, minute.val,
                                       ClampSecond(second.val))
        f_sign == SplitOnce(f_sec.rem, TAB)
        bad    == [ok |-> FALSE, time_stamp |-> 0, plus_minus |-> <<>>]
    IN  IF ~p.ok THEN bad
        ELSE IF ~f_year.ok \/ ~year.ok THEN bad
        ELSE IF ~f_mon.ok \/ ~month.ok THEN bad
        ELSE IF ~f_day.ok \/ ~day.ok THEN bad
        ELSE IF ~date.ok THEN bad
        ELSE IF ~f_hour.ok \/ ~hour.ok THEN bad
        ELSE IF ~f_min.ok \/ ~minute.ok THEN bad
        ELSE IF ~f_sec.ok \/ ~second.ok THEN bad
        ELSE IF ~stamp.ok THEN bad
        ELSE IF ~f_sign.ok THEN bad
        ELSE [ok |-> TRUE, time_stamp |-> stamp.val, plus_minus |-> f_sign.head]

\* ApplySign with the "-" arm a copy of the "+" arm's diff += 1.
ApplySignBothUp(plus_minus, time_stamp, diff) ==
    IF plus_minus = <<"+">>
      THEN [ok |-> TRUE, time_stamp |-> time_stamp + 1, diff |-> diff + 1]
    ELSE IF plus_minus = <<"-">>
      THEN [ok |-> TRUE, time_stamp |-> time_stamp, diff |-> diff + 1]
    ELSE [ok |-> FALSE, time_stamp |-> time_stamp, diff |-> diff]

\* lib.rs:267-274: the match on the sign.
ApplySign(plus_minus, time_stamp, diff) ==
    IF plus_minus = <<"+">>
      THEN [ok |-> TRUE, time_stamp |-> time_stamp + 1, diff |-> diff + 1]
    ELSE IF plus_minus = <<"-">>
      THEN [ok |-> TRUE, time_stamp |-> time_stamp, diff |-> diff - 1]
    ELSE [ok |-> FALSE, time_stamp |-> time_stamp, diff |-> diff]

\* Retained with the expiry itself left out.
RetainedAfter(time_stamp) == time_stamp > EXPIRES_AT_UTC

\* lib.rs:276.
Retained(time_stamp) == time_stamp >= EXPIRES_AT_UTC

\* lib.rs:231: the running offset before the first line.
SeedDiff == FIRST_LEAP_SECONDS_DIFF

\* The loop of lib.rs:232-279 from line i on, with the running offset diff and
\* the events pushed so far.
RECURSIVE ReadLoop(_, _, _, _)
ReadLoop(lines, i, diff, elements) ==
    IF i > Len(lines) THEN elements
    ELSE LET f == ParseFields(lines[i])
             s == ApplySign(f.plus_minus, f.time_stamp, diff)
         IN  IF ~f.ok THEN ReadLoop(lines, i + 1, diff, elements)
             ELSE IF ~s.ok THEN ReadLoop(lines, i + 1, diff, elements)
             ELSE IF Retained(s.time_stamp)
               THEN ReadLoop(lines, i + 1, s.diff,
                             Append(elements, <<s.time_stamp, s.diff>>))
             ELSE ReadLoop(lines, i + 1, s.diff, elements)

\* read_additional_leap_seconds on the pieces of the file: None for a file that
\* cannot be read.
ReadLines(readable, lines) ==
    IF ~readable THEN [some |-> FALSE, val |-> <<>>]
    ELSE [some |-> TRUE,
          val  |-> ReadLoop(lines, 1, SeedDiff, <<>>)]

\* Option::unwrap_or_default (lib.rs:294, 322).
UnwrapOrDefault(opt) == IF opt.some THEN opt.val ELSE <<>>

(***************************************************************************)
(* The leap-second files the environment may hold.  A line is described by *)
(* what it is meant to say; LineText writes the description out as the     *)
(* characters of a line of /usr/share/zoneinfo/leapseconds.  moment is the *)
(* Unix time stamp of the line's calendar moment, second 60 read as 59.    *)
(***************************************************************************)

RECURSIVE NumText(_)
NumText(n) ==
    IF n < 10 THEN <<Digits[n + 1]>>
    ELSE NumText(n \div 10) \o <<Digits[(n % 10) + 1]>>

LineText(d) ==
    IF d.defect = "empty" THEN <<>>
    ELSE (IF d.defect = "prefix" THEN <<"#">> ELSE <<>>)
         \o <<"L", "e", "a", "p", TAB>>
         \o NumText(d.year) \o <<TAB>>
         \o MonthNames[d.month] \o <<TAB>>
         \o (IF d.defect = "day" THEN <<"3", "o">> ELSE NumText(d.day)) \o <<TAB>>
         \o NumText(d.hms[1]) \o <<":">> \o NumText(d.hms[2]) \o <<":">>
         \o NumText(d.hms[3]) \o <<TAB>>
         \o (IF d.defect = "sign" THEN <<"x">> ELSE <<d.sign>>)
         \o <<TAB, "S">>

Desc(year, month, day, hms, sign, defect, moment) ==
    [year |-> year, month |-> month, day |-> day, hms |-> hms, sign |-> sign,
     defect |-> defect, moment |-> moment]

\* The leap seconds of 1972-2016 as the IANA file lists them: the last day of
\* June or December, 23:59:60, "+".
HistoryDates ==
    << <<1972, 6>>, <<1972, 12>>, <<1973, 12>>, <<1974, 12>>, <<1975, 12>>,
       <<1976, 12>>, <<1977, 12>>, <<1978, 12>>, <<1979, 12>>, <<1981, 6>>,
       <<1982, 6>>, <<1983, 6>>, <<1985, 6>>, <<1987, 12>>, <<1989, 12>>,
       <<1990, 12>>, <<1992, 6>>, <<1993, 6>>, <<1994, 6>>, <<1995, 12>>,
       <<1997, 6>>, <<1998, 12>>, <<2005, 12>>, <<2008, 12>>, <<2012, 6>>,
       <<2015, 6>>, <<2016, 12>> >>

HistoryDescs ==
    [k \in 1..Len(HistoryDates) |->
        Desc(HistoryDates[k][1], HistoryDates[k][2],
             IF HistoryDates[k][2] = 6 THEN 30 ELSE 31, <<23, 59, 60>>, "+", "none",
             LEAP_SECONDS[k][1] - 1)]

\* 2023-06-27T23:59:59Z, the second before EXPIRES_AT_UTC.
Moment2023 == EXPIRES_AT_UTC - 1

\* 2030-06-30T23:59:59Z.
Moment2030 == 1909094400 - 1

\* 2031-12-31T23:59:59Z.
Moment2031 == 1956528000 - 1

\* A positive leap second whose event falls exactly on EXPIRES_AT_UTC.
Plus2023 == Desc(2023, 6, 27, <<23, 59, 60>>, "+", "none", Moment2023)

\* A negative leap second one second before EXPIRES_AT_UTC.
Minus2023 == Desc(2023, 6, 27, <<23, 59, 59>>, "-", "none", Moment2023)

Plus2030 == Desc(2030, 6, 30, <<23, 59, 60>>, "+", "none", Moment2030)

Minus2031 == Desc(2031, 12, 31, <<23, 59, 59>>, "-", "none", Moment2031)

\* Malformed lines: each fails at one place of the parse.
BadPrefix == Desc(2030, 6, 30, <<23, 59, 60>>, "+", "prefix", Moment2030)

BadDay == Desc(2030, 6, 30, <<23, 59, 60>>, "+", "day", Moment2030)

\* 31 June: no such date.
BadDate == Desc(2030, 6, 31, <<23, 59, 60>>, "+", "date", Moment2030)

\* Hour 24: no such time.
BadTime == Desc(2030, 6, 30, <<24, 0, 0>>, "+", "time", Moment2030)

BadSign == Desc(2030, 6, 30, <<23, 59, 60>>, "+", "sign", Moment2030)

\* The piece after the file's last newline.
EmptyLine == Desc(0, 1, 1, <<0, 0, 0>>, "+", "empty", 0)

ParseLines ==
    {Plus2023, Minus2023, Plus2030, Minus2031, BadPrefix, BadDay, BadDate,
     BadTime, BadSign}

ConvLines == {Plus2023, Minus2023, Plus2030, Minus2031, BadSign}

\* The lines that may follow the history in a file: at most MaxLines of them in
\* the files conversions run against, at most MaxParseLines in the files the
\* parser is checked on.
MaxLines == 2

MaxParseLines == 3

SeqsUpTo(S, n) == UNION {[1..k -> S] : k \in 0..n}

TextOf(descs) == [k \in 1..Len(descs) |-> LineText(descs[k])]

\* A readable file: the history or not, then the lines of tail; every line ends
\* with a newline.
FilesOver(S, n) ==
    {[readable |-> TRUE, history |-> h, tail |-> tail] :
        h \in BOOLEAN, tail \in SeqsUpTo(S, n)}

Unreadable == [readable |-> FALSE, history |-> FALSE, tail |-> <<>>]

\* The lines of a file as they are meant.
FileDescs(f) == (IF f.history THEN HistoryDescs ELSE <<>>) \o f.tail

\* The pieces file.split('\n') yields (lib.rs:232): the lines in characters, and
\* the empty piece after the last newline.
SplitLines(f) == TextOf(FileDescs(f) \o <<EmptyLine>>)

\* read_additional_leap_seconds with the file f in place.
ReadAdditionalLeapSeconds(f) == ReadLines(f.readable, SplitLines(f))

ParseFiles == FilesOver(ParseLines, MaxParseLines) \cup {Unreadable}

ConvFiles == FilesOver(ConvLines, MaxLines) \cup {Unreadable}

(***************************************************************************)
(* The instants converted                                                  *)
(***************************************************************************)

\* The event instants the files above can put in the supplementary table.
SupInstants == {Moment2023 + 1, Moment2030 + 1, Moment2031}

StaticIndex == 1..Len(LEAP_SECONDS)

HalfSecond == Nanosecond \div 2

Whole(S) == {[seconds |-> s, nanoseconds |-> 0] : s \in S}

\* The same seconds with half a second more (away from zero).
Halves(S) ==
    {[seconds |-> s, nanoseconds |-> HalfSecond] : s \in {s \in S : s >= 0}}
    \cup {[seconds |-> s, nanoseconds |-> -HalfSecond] : s \in {s \in S : s <= 0}}

UtcSeconds ==
    {-86400, -1, 0, 1}
    \cup UNION {{LEAP_SECONDS[i][1] - 1, LEAP_SECONDS[i][1]} : i \in StaticIndex}
    \cup (EXPIRES_AT_UTC - 2)..(EXPIRES_AT_UTC + 1)
    \cup UNION {(s - 2)..(s + 1) : s \in SupInstants}

UtcInputs ==
    Whole(UtcSeconds)
    \cup Halves({-1, 0, LEAP_SECONDS[1][1] - 1, LEAP_SECONDS[1][1],
                 EXPIRES_AT_UTC - 1, Moment2030, Moment2031})

\* Around t + d for the offsets d a table built from the files above can hold.
TaiSeconds ==
    {-86400, -1, 0, 9, 10, 11}
    \cup UNION {(LEAP_SECONDS[i][1] + LEAP_SECONDS[i][2] - 2)
                    ..(LEAP_SECONDS[i][1] + LEAP_SECONDS[i][2]) : i \in StaticIndex}
    \cup (EXPIRES_AT_UTC - 1)..(EXPIRES_AT_UTC + 1)
    \cup (EXPIRES_AT_TAI - 2)..(EXPIRES_AT_TAI + 2)
    \cup UNION {(s + 35)..(s + 39) \cup (s + 9)..(s + 12) : s \in SupInstants}

TaiInputs ==
    Whole(TaiSeconds)
    \cup Halves({-1, 0, LEAP_SECONDS[1][1] + 10, EXPIRES_AT_TAI - 1,
                 Moment2030 + 38, Moment2031 + 37})

(***************************************************************************)
(* The process: the file of the environment, the OnceCell                  *)
(* ADDITIONAL_LEAP_SECONDS, and the threads that convert.                  *)
(***************************************************************************)

NumThreads == 2

MaxUpdates == 1

Threads == 1..NumThreads

VARIABLES
    file,     \* /usr/share/zoneinfo/leapseconds: [readable, history, tail]
    updates,  \* how often the environment has replaced the file
    cell,     \* ADDITIONAL_LEAP_SECONDS: [set, val]
    lock,     \* the thread inside the cell's initialisation, 0 for none
    reads,    \* how often read_additional_leap_seconds has run
    thr,      \* per thread: the conversion it is in
    before    \* a TaiDateTime kept by the caller, with the UTC instant it is from

vars == <<file, updates, cell, lock, reads, thr, before>>

Zero == [seconds |-> 0, nanoseconds |-> 0]

\* A thread outside any conversion.
Idle ==
    [pc |-> "idle", dir |-> "none", arg |-> Zero, ret |-> Zero, orig |-> Zero,
     hops |-> 0, consulted |-> FALSE, leap_seconds |-> <<>>]

InitOver(files) ==
    /\ file \in files
    /\ updates = 0
    /\ cell = [set |-> FALSE, val |-> <<>>]
    /\ lock = 0
    /\ reads = 0
    /\ thr = [t \in Threads |-> Idle]
    /\ before = [has |-> FALSE, utc |-> Zero, tai |-> Zero]

PastExpiry(dir, time) ==
    IF dir = "utc_to_tai" THEN PastExpiryUtc(time) ELSE PastExpiryTai(time)

FromStatic(dir, time) ==
    IF dir = "utc_to_tai" THEN FromUtcStatic(time) ELSE FromTaiStatic(time)

FromWith(dir, time, leap_seconds) ==
    IF dir = "utc_to_tai" THEN FromUtcWith(time, leap_seconds)
    ELSE FromTaiWith(time, leap_seconds)

\* The start of a conversion (lib.rs:288-292, 318-320): before the expiry the
\* static table answers at once, past it the thread goes on to get_or_init.
Entered(dir, time, orig, hops) ==
    IF PastExpiry(dir, time)
      THEN [pc |-> "get_or_init", dir |-> dir, arg |-> time, ret |-> Zero,
            orig |-> orig, hops |-> hops, consulted |-> FALSE, leap_seconds |-> <<>>]
      ELSE [pc |-> "done", dir |-> dir, arg |-> time, ret |-> FromStatic(dir, time),
            orig |-> orig, hops |-> hops, consulted |-> FALSE, leap_seconds |-> <<>>]

\* The end of a conversion that got leap_seconds from the cell.
Finished(t, leap_seconds) ==
    [thr[t] EXCEPT !.pc = "done", !.consulted = TRUE, !.leap_seconds = leap_seconds,
                   !.ret = FromWith(thr[t].dir, thr[t].arg, leap_seconds)]

\* TaiDateTime::from(time: OffsetDateTime)
CallFromUtc(t, time) ==
    /\ thr[t].pc = "idle"
    /\ thr' = [thr EXCEPT ![t] = Entered("utc_to_tai", time, time, 1)]
    /\ UNCHANGED <<file, updates, cell, lock, reads, before>>

\* OffsetDateTime::from(time: TaiDateTime)
CallFromTai(t, time) ==
    /\ thr[t].pc = "idle"
    /\ thr' = [thr EXCEPT ![t] = Entered("tai_to_utc", time, time, 1)]
    /\ UNCHANGED <<file, updates, cell, lock, reads, before>>

Opposite(dir) == IF dir = "utc_to_tai" THEN "tai_to_utc" ELSE "utc_to_tai"

\* The caller converts the result back: OffsetDateTime::from(TaiDateTime::from(x))
\* or the reverse.
ConvertBack(t) ==
    /\ thr[t].pc = "done"
    /\ thr[t].hops = 1
    /\ thr' = [thr EXCEPT ![t] =
                 Entered(Opposite(thr[t].dir), thr[t].ret, thr[t].orig, 2)]
    /\ UNCHANGED <<file, updates, cell, lock, reads, before>>

\* OnceCell::get_or_init, the cell already set: the closure is not run.
GetExisting(t) ==
    /\ thr[t].pc = "get_or_init"
    /\ cell.set
    /\ thr' = [thr EXCEPT ![t] = Finished(t, cell.val)]
    /\ UNCHANGED <<file, updates, cell, lock, reads, before>>

\* MayInitialize without the cell's mutual exclusion: get(), then set().
MayInitializeUnlocked == ~cell.set

\* OnceCell::get_or_init lets one thread at a time initialise an unset cell; the
\* others wait until it is set.
MayInitialize == ~cell.set /\ lock = 0

\* OnceCell::get_or_init, the cell unset: the thread enters the initialisation.
InitBegin(t) ==
    /\ thr[t].pc = "get_or_init"
    /\ MayInitialize
    /\ lock' = t
    /\ thr' = [thr EXCEPT ![t].pc = "init"]
    /\ UNCHANGED <<file, updates, cell, reads, before>>

\* The closure || read_additional_leap_seconds().unwrap_or_default(), its value
\* stored in the cell and returned.
InitRun(t) ==
    /\ thr[t].pc = "init"
    /\ LET v == UnwrapOrDefault(ReadAdditionalLeapSeconds(file))
       IN  /\ cell' = [set |-> TRUE, val |-> v]
           /\ thr' = [thr EXCEPT ![t] = Finished(t, v)]
    /\ reads' = reads + 1
    /\ lock' = 0
    /\ UNCHANGED <<file, updates, before>>

\* The caller drops the result.
Return(t) ==
    /\ thr[t].pc \in {"done", "subtracted"}
    /\ thr' = [thr EXCEPT ![t] = Idle]
    /\ UNCHANGED <<file, updates, cell, lock, reads, before>>

\* let before = TaiDateTime::from(..) (main.rs:6).
Keep(t) ==
    /\ thr[t].pc = "done"
    /\ thr[t].dir = "utc_to_tai"
    /\ thr[t].hops = 1
    /\ ~before.has
    /\ before' = [has |-> TRUE, utc |-> thr[t].arg, tai |-> thr[t].ret]
    /\ thr' = [thr EXCEPT ![t] = Idle]
    /\ UNCHANGED <<file, updates, cell, lock, reads>>

\* after - before (main.rs:18), after being the TaiDateTime just made: the thread
\* holds the difference (ret) of the two, made from the UTC instants orig and arg.
Subtract(t) ==
    /\ thr[t].pc = "done"
    /\ thr[t].dir = "utc_to_tai"
    /\ thr[t].hops = 1
    /\ before.has
    /\ thr' = [thr EXCEPT ![t].pc = "subtracted", ![t].orig = before.utc,
                          ![t].ret = Sub(thr[t].ret, before.tai)]
    /\ before' = [has |-> FALSE, utc |-> Zero, tai |-> Zero]
    /\ UNCHANGED <<file, updates, cell, lock, reads>>

\* The environment replaces the leap-second file (a tzdata update).
FileUpdate(files) ==
    /\ updates < MaxUpdates
    /\ file' \in files \ {file}
    /\ updates' = updates + 1
    /\ UNCHANGED <<cell, lock, reads, thr, before>>

(***************************************************************************)
(* Specifications                                                          *)
(***************************************************************************)

\* One caller converting instants of either time base, and converting results
\* back.
Init == InitOver(ConvFiles)

Next ==
    \/ \E time \in UtcInputs : CallFromUtc(1, time)
    \/ \E time \in TaiInputs : CallFromTai(1, time)
    \/ ConvertBack(1)
    \/ GetExisting(1)
    \/ InitBegin(1)
    \/ InitRun(1)
    \/ Return(1)

Spec == Init /\ [][Next]_vars

\* main.rs: one caller keeps a TaiDateTime and subtracts it from a later one.
DiffInputs ==
    Whole({-1, LEAP_SECONDS[1][1], EXPIRES_AT_UTC - 1, EXPIRES_AT_UTC,
           Moment2030, Moment2030 + 1, Moment2031 - 1, Moment2031})
    \cup Halves({LEAP_SECONDS[1][1] - 1})

NextDiff ==
    \/ \E time \in DiffInputs : CallFromUtc(1, time)
    \/ GetExisting(1)
    \/ InitBegin(1)
    \/ InitRun(1)
    \/ Keep(1)
    \/ Subtract(1)
    \/ Return(1)

SpecDiff == Init /\ [][NextDiff]_vars

\* The reader on every file of ParseFiles: one caller converts an instant past
\* the expiry.
InitParse == InitOver(ParseFiles)

NextParse ==
    \/ CallFromUtc(1, [seconds |-> EXPIRES_AT_UTC, nanoseconds |-> 0])
    \/ GetExisting(1)
    \/ InitBegin(1)
    \/ InitRun(1)
    \/ Return(1)

SpecParse == InitParse /\ [][NextParse]_vars

\* Several threads converting at once while the environment replaces the file.
ConcFiles ==
    {Unreadable,
     [readable |-> TRUE, history |-> TRUE, tail |-> <<Plus2030>>],
     [readable |-> TRUE, history |-> TRUE, tail |-> <<Plus2030, Minus2031>>]}

ConcUtcInputs == Whole({EXPIRES_AT_UTC - 1, Moment2030 + 1})

ConcTaiInputs == Whole({EXPIRES_AT_TAI})

InitConc == InitOver(ConcFiles)

NextConc ==
    \/ \E t \in Threads, time \in ConcUtcInputs : CallFromUtc(t, time)
    \/ \E t \in Threads, time \in ConcTaiInputs : CallFromTai(t, time)
    \/ \E t \in Threads : GetExisting(t)
    \/ \E t \in Threads : InitBegin(t)
    \/ \E t \in Threads : InitRun(t)
    \/ \E t \in Threads : Return(t)
    \/ FileUpdate(ConcFiles)

SpecConc == InitConc /\ [][NextConc]_vars

(***************************************************************************)
(* Properties                                                              *)
(***************************************************************************)

\* r is a plus k whole seconds, the sub-second part carried over.
Shifted(a, r, k) ==
    /\ (r.nanoseconds - a.nanoseconds) % HalfSecond = 0
    /\ 2 * (r.seconds - a.seconds) + (r.nanoseconds - a.nanoseconds) \div HalfSecond
         = 2 * k
    /\ (r.seconds > 0 => r.nanoseconds >= 0)
    /\ (r.seconds < 0 => r.nanoseconds <= 0)

\* A conversion of thread t in direction dir has returned.
Converted(t, dir) == thr[t].pc = "done" /\ thr[t].hops = 1 /\ thr[t].dir = dir

\* Thread t has converted an instant of time base dir and the result back.
WentRound(t, dir) ==
    thr[t].pc = "done" /\ thr[t].hops = 2 /\ thr[t].dir = Opposite(dir)

\* The offset before the supplementary table's entry i: the entry before it, the
\* static table's last offset before the first.
OffsetBefore(table, i) ==
    IF i = 1 THEN LEAP_SECONDS[Len(LEAP_SECONDS)][2] ELSE table[i - 1][2]

StrictlyIncreasing(table) ==
    \A i \in 1..(Len(table) - 1) : table[i][1] < table[i + 1][1]

\* A table that continues the static one: instants strictly increasing, every
\* offset one more or one less than the offset before it.
Continues(table) ==
    /\ StrictlyIncreasing(table)
    /\ \A i \in 1..Len(table) :
          table[i][2] - OffsetBefore(table, i) \in {1, -1}

\* The static offset in force at a UTC second, counted from the table.
EraOffsetUtc(ws) ==
    FIRST_LEAP_SECONDS_DIFF + Cardinality({i \in StaticIndex : LEAP_SECONDS[i][1] <= ws})

\* The static offset in force at a TAI second.
EraOffsetTai(ws) ==
    FIRST_LEAP_SECONDS_DIFF
    + Cardinality({i \in StaticIndex : LEAP_SECONDS[i][1] + LEAP_SECONDS[i][2] <= ws})

----------------------------------------------------------------------------
\* C1 (as claimed), on the supplementary tables that continue the static one,
\* "-" events included: a UTC instant converted to TAI and back is the instant
\* itself.
C1_RoundTripUtc ==
    \A t \in Threads :
        WentRound(t, "utc_to_tai") /\ Continues(cell.val) =>
            thr[t].ret = thr[t].orig

----------------------------------------------------------------------------
InsertedSecond(table, ws) ==
    \/ \E i \in StaticIndex : ws = LEAP_SECONDS[i][1] + LEAP_SECONDS[i][2] - 1
    \/ \E i \in 1..Len(table) :
          /\ table[i][2] > OffsetBefore(table, i)
          /\ ws = table[i][1] + table[i][2] - 1

----------------------------------------------------------------------------
\* The instant thread t is converting lies at or past the expiry of its time base.
ArgPastExpiry(t) ==
    \/ thr[t].dir = "utc_to_tai" /\ thr[t].arg.seconds >= EXPIRES_AT_UTC
    \/ thr[t].dir = "tai_to_utc" /\ thr[t].arg.seconds >= EXPIRES_AT_TAI

\* A step that populates the cell or runs the read is a step of a conversion of
\* an instant past the expiry.
C4_PopulatedOnlyPastExpiry ==
    (cell'.set # cell.set \/ reads' # reads \/ lock' # lock) =>
        \E t \in Threads : thr[t].pc \in {"get_or_init", "init"} /\ ArgPastExpiry(t)

\* Only a conversion past the expiry reaches the cell, and a conversion before it
\* has the static table's offset whatever the cell holds.
C4_BeforeExpiryStaticOnly ==
    \A t \in Threads :
        /\ thr[t].pc \in {"get_or_init", "init"} \/ thr[t].consulted => ArgPastExpiry(t)
        /\ thr[t].pc = "done" /\ ~ArgPastExpiry(t) =>
              IF thr[t].dir = "utc_to_tai"
                THEN Shifted(thr[t].arg, thr[t].ret, EraOffsetUtc(thr[t].arg.seconds))
                ELSE Shifted(thr[t].ret, thr[t].arg, EraOffsetTai(thr[t].arg.seconds))

\* C4: the supplementary table is consulted and populated only by a conversion
\* of an instant at or past EXPIRES_AT_UTC (UTC to TAI) or EXPIRES_AT_TAI (TAI to
\* UTC); a conversion before the expiry is answered by the static table alone.
C4_NeverBeforeExpiry ==
    [][C4_PopulatedOnlyPastExpiry]_vars /\ []C4_BeforeExpiryStaticOnly

\* With the cell still unset, and then with it set, an instant just before the
\* expiry has been converted from the static table.
C4_Witness ==
    /\ cell.set /\ cell.val # <<>>
    /\ Converted(1, "tai_to_utc")
    /\ thr[1].arg.seconds = EXPIRES_AT_TAI - 1
    /\ ~thr[1].consulted

----------------------------------------------------------------------------
\* C5 for the static table: the second of an event has the event's offset, the
\* second before it the offset before it.
C5_StaticBoundary(t) ==
    \A i \in StaticIndex :
        /\ thr[t].arg.seconds = LEAP_SECONDS[i][1] =>
              Shifted(thr[t].arg, thr[t].ret, LEAP_SECONDS[i][2])
        /\ thr[t].arg.seconds = LEAP_SECONDS[i][1] - 1 =>
              Shifted(thr[t].arg, thr[t].ret,
                      IF i = 1 THEN FIRST_LEAP_SECONDS_DIFF ELSE LEAP_SECONDS[i - 1][2])

\* C5 for the supplementary table the conversion searched, or would have.
C5_SupplementaryBoundary(t) ==
    \A i \in 1..Len(cell.val) :
        /\ thr[t].arg.seconds = cell.val[i][1] =>
              Shifted(thr[t].arg, thr[t].ret, cell.val[i][2])
        /\ thr[t].arg.seconds = cell.val[i][1] - 1 =>
              Shifted(thr[t].arg, thr[t].ret, OffsetBefore(cell.val, i))

\* C5 (as claimed): for every event (t, d) of the table searched, static or
\* supplementary, the UTC second t resolves to d and the second t - 1 to the
\* offset of the event before.
C5_InclusiveBoundary ==
    \A t \in Threads :
        Converted(t, "utc_to_tai") =>
            C5_StaticBoundary(t) /\ C5_SupplementaryBoundary(t)

\* C5 (amended): the same for every event of the static table, and for every
\* event of a supplementary table whose instants are strictly increasing.
C5_InclusiveBoundarySorted ==
    \A t \in Threads :
        Converted(t, "utc_to_tai") =>
            /\ C5_StaticBoundary(t)
            /\ StrictlyIncreasing(cell.val) => C5_SupplementaryBoundary(t)

\* 1972-07-01T00:00:00Z has been converted with offset 11.
C5_Witness ==
    /\ Converted(1, "utc_to_tai")
    /\ thr[1].arg = [seconds |-> 78796800, nanoseconds |-> 0]
    /\ thr[1].ret = [seconds |-> 78796811, nanoseconds |-> 0]

----------------------------------------------------------------------------
\* C6: a UTC instant before the first event of the static table, negative ones
\* included, is converted by adding FIRST_LEAP_SECONDS_DIFF = 10 seconds.
C6_PreHistory ==
    \A t \in Threads :
        Converted(t, "utc_to_tai") /\ thr[t].arg.seconds < LEAP_SECONDS[1][1] =>
            Shifted(thr[t].arg, thr[t].ret, 10)

\* 1972-06-30T23:59:59Z has been converted with offset 10.
C6_Witness ==
    /\ Converted(1, "utc_to_tai")
    /\ thr[1].arg = [seconds |-> 78796799, nanoseconds |-> 0]
    /\ thr[1].ret = [seconds |-> 78796809, nanoseconds |-> 0]

----------------------------------------------------------------------------
\* C8: with an empty supplementary table (the file unreadable, or no event
\* retained) an instant past the expiry is converted with the static table's
\* last offset, 37, in either direction; a file that cannot be read leaves the
\* table empty, and a conversion that has reached get_or_init finds the cell set,
\* may initialise it, or waits for the thread that does.
C8_FreezeAtLastOffset ==
    /\ cell.set /\ ~file.readable => cell.val = <<>>
    /\ \A t \in Threads :
          /\ thr[t].pc = "done" /\ thr[t].consulted /\ thr[t].leap_seconds = <<>> =>
                IF thr[t].dir = "utc_to_tai"
                  THEN Shifted(thr[t].arg, thr[t].ret, 37)
                  ELSE Shifted(thr[t].ret, thr[t].arg, 37)
          /\ thr[t].pc = "get_or_init" =>
                cell.set \/ lock = 0 \/ thr[lock].pc = "init"

\* The file could not be read and a UTC instant past the expiry has been
\* converted with offset 37.
C8_Witness ==
    /\ ~file.readable
    /\ Converted(1, "utc_to_tai")
    /\ thr[1].consulted /\ thr[1].leap_seconds = <<>>
    /\ thr[1].arg = [seconds |-> Moment2030 + 1, nanoseconds |-> 0]
    /\ thr[1].ret = [seconds |-> Moment2030 + 38, nanoseconds |-> 0]

----------------------------------------------------------------------------
\* The cell, once set, keeps its value, and the read is not run again.
C3_SetOnce ==
    /\ cell.set => cell' = cell /\ reads' = reads
    /\ ~cell.set /\ cell'.set /\ ~file.readable => cell'.val = <<>>

\* The read has run at most once, exactly once when the cell is set, and every
\* conversion that consulted the cell saw the value the cell holds.
C3_OneTable ==
    /\ reads <= 1
    /\ cell.set <=> reads = 1 /\ lock = 0
    /\ \A t \in Threads : thr[t].consulted => cell.set /\ thr[t].leap_seconds = cell.val

\* C3: in every interleaving read_additional_leap_seconds runs at most once;
\* every conversion that consults ADDITIONAL_LEAP_SECONDS observes the same
\* table, which never changes once set; a failed read is cached as the empty
\* table and never retried.
C3_InitializeOnce == [][C3_SetOnce]_vars /\ []C3_OneTable

\* The read failed and was cached as the empty table; the file has since become
\* readable with an event in it, and two threads have converted against the
\* empty table, one in each direction.
C3_Witness ==
    /\ cell.set /\ cell.val = <<>> /\ reads = 1
    /\ file.readable /\ file.tail # <<>>
    /\ thr[1].pc = "done" /\ thr[1].consulted /\ thr[1].dir = "utc_to_tai"
    /\ thr[2].pc = "done" /\ thr[2].consulted /\ thr[2].dir = "tai_to_utc"

----------------------------------------------------------------------------
\* The number of events between the UTC seconds a and b, a < t <= b: one for each
\* event of the static table, and for each event of the supplementary table one
\* if it raised the offset, minus one if it lowered it.
LeapsBetween(table, a, b) ==
    Cardinality({i \in StaticIndex : a < LEAP_SECONDS[i][1] /\ LEAP_SECONDS[i][1] <= b})
    + Cardinality({i \in 1..Len(table) :
                     /\ a < table[i][1] /\ table[i][1] <= b
                     /\ table[i][2] > OffsetBefore(table, i)})
    - Cardinality({i \in 1..Len(table) :
                     /\ a < table[i][1] /\ table[i][1] <= b
                     /\ table[i][2] <= OffsetBefore(table, i)})

\* Thread t holds the difference of the TaiDateTimes of two UTC instants
\* a = orig <= b = arg.
Subtracted(t) ==
    /\ thr[t].pc = "subtracted"
    /\ \/ thr[t].orig.seconds < thr[t].arg.seconds
       \/ /\ thr[t].orig.seconds = thr[t].arg.seconds
          /\ thr[t].orig.nanoseconds <= thr[t].arg.nanoseconds

\* The difference exceeds b - a by the number of leap seconds between a and b.
C7_DifferenceIsLeaps(t) ==
    Shifted(DurSub(thr[t].arg, thr[t].orig), thr[t].ret,
            LeapsBetween(cell.val, thr[t].orig.seconds, thr[t].arg.seconds))

\* C7 (as claimed): for any two UTC instants a <= b and any supplementary table,
\* (TaiDateTime::from(b) - TaiDateTime::from(a)) - (b - a) is the number of
\* tabulated events in (a, b], "+" counted as +1 and "-" as -1.
C7_Difference ==
    \A t \in Threads : Subtracted(t) => C7_DifferenceIsLeaps(t)

\* C7 (amended): the same with a supplementary table that continues the static
\* one.
C7_DifferenceContinuing ==
    \A t \in Threads : Subtracted(t) /\ Continues(cell.val) => C7_DifferenceIsLeaps(t)

\* From 1972-07-01 to 2031-12-31T23:59:59Z across 26 static events, the "+" of
\* 2030 and the "-" of 2031: 26 leap seconds more than b - a.
C7_Witness ==
    /\ Subtracted(1)
    /\ cell.val = << <<Moment2030 + 1, 38>>, <<Moment2031, 37>> >>
    /\ thr[1].orig = [seconds |-> LEAP_SECONDS[1][1], nanoseconds |-> 0]
    /\ thr[1].arg = [seconds |-> Moment2031, nanoseconds |-> 0]
    /\ thr[1].ret = [seconds |-> Moment2031 - LEAP_SECONDS[1][1] + 26, nanoseconds |-> 0]

----------------------------------------------------------------------------
\* What the lines of a file are meant to say, by position.
WellFormed(descs) == {i \in 1..Len(descs) : descs[i].defect = "none"}

SignOf(d) == IF d.sign = "+" THEN 1 ELSE -1

\* The event instant of a well-formed line: the calendar moment, one second
\* later for "+".
InstantOf(d) == IF d.sign = "+" THEN d.moment + 1 ELSE d.moment

\* The signs of the well-formed lines among lines lo..hi, summed.
NetSign(descs, lo, hi) ==
    Cardinality({j \in WellFormed(descs) : lo <= j /\ j <= hi /\ descs[j].sign = "+"})
    - Cardinality({j \in WellFormed(descs) : lo <= j /\ j <= hi /\ descs[j].sign = "-"})

\* The well-formed lines whose event is at or after the expiry.
Kept(descs) == {i \in WellFormed(descs) : InstantOf(descs[i]) >= EXPIRES_AT_UTC}

\* The line the k-th event of the table must come from.
KeptLine(descs, k) ==
    CHOOSE i \in Kept(descs) : Cardinality({j \in Kept(descs) : j <= i}) = k

\* C9: the table read from a file holds exactly the well-formed lines whose
\* event is at or after EXPIRES_AT_UTC, in the file's order; a malformed line
\* adds no event and leaves the running offset alone; an event's offset is the
\* running offset after its own sign and those of all well-formed lines before
\* it, its instant the calendar moment, plus one second for "+".
C9_ParserRobust ==
    cell.set =>
        IF ~file.readable THEN cell.val = <<>>
        ELSE LET descs == FileDescs(file)
             IN  /\ Len(cell.val) = Cardinality(Kept(descs))
                 /\ \A k \in 1..Len(cell.val) :
                       /\ cell.val[k][1] = InstantOf(descs[KeptLine(descs, k)])
                       /\ cell.val[k][2] =
                            FIRST_LEAP_SECONDS_DIFF + NetSign(descs, 1, KeptLine(descs, k))

\* Two valid lines with a malformed one between them, after the history: both
\* events, in order, with offsets 38 and 37.
C9_Witness ==
    /\ cell.set
    /\ file.readable /\ file.history
    /\ file.tail = <<Plus2030, BadDate, Minus2031>>
    /\ cell.val = << <<Moment2030 + 1, 38>>, <<Moment2031, 37>> >>

----------------------------------------------------------------------------
\* C10 (as claimed): whatever the file holds, the first event of the table has
\* offset 37 plus its own sign, and every later event differs from the one
\* before it by its own sign.
C10_Continuity ==
    cell.set /\ file.readable =>
        LET descs == FileDescs(file)
        IN  \A k \in 1..Len(cell.val) :
               cell.val[k][2] - OffsetBefore(cell.val, k)
                 = SignOf(descs[KeptLine(descs, k)])

\* C10 (amended): the running offset starts at FIRST_LEAP_SECONDS_DIFF = 10 and
\* counts every well-formed line of the file, retained or not.  The first event
\* of the table has offset 10 plus the signs of all well-formed lines up to and
\* including its own, which is 37 plus its own sign exactly when the lines
\* before it sum to 27, as the history of 1972-2016 does; a later event differs
\* from the one before it by the signs of the well-formed lines after that one
\* up to and including its own.
C10_ContinuityFromSeed ==
    cell.set /\ file.readable =>
        LET descs   == FileDescs(file)
            line(k) == KeptLine(descs, k)
        IN  \A k \in 1..Len(cell.val) :
               /\ k = 1 =>
                     /\ cell.val[1][2] = 10 + NetSign(descs, 1, line(1))
                     /\ cell.val[1][2] = 37 + SignOf(descs[line(1)])
                          <=> NetSign(descs, 1, line(1) - 1) = 27
               /\ k > 1 =>
                     cell.val[k][2] - cell.val[k - 1][2]
                       = NetSign(descs, line(k - 1) + 1, line(k))

\* A file without the history: its one event has offset 11, not 38.
C10_Witness ==
    /\ cell.set
    /\ file.readable /\ ~file.history
    /\ file.tail = <<Plus2030>>
    /\ cell.val = << <<Moment2030 + 1, 11>> >>

=============================================================================
